---- MODULE Spec2Model ----
(***************************************************************************)
(* A node of the blockchain consortium (blockchain.py): the ledger State,  *)
(* the Blockchain object with its chain and transaction pool, the mining   *)
(* thread and the acceptance of blocks received from peers.                *)
(*                                                                         *)
(* Every piece of node state is indexed by the nodes that run.  Spec runs  *)
(* one node (Solo) against an arbitrary environment: any client            *)
(* submission and any block posted to it.  NetSpec runs two nodes (Net)    *)
(* that receive what the other one broadcasts.  The mining thread of       *)
(* trigger_new_block_mine runs without a lock, so it is modelled one       *)
(* statement at a time; the caller of is_new_block_valid runs in another   *)
(* thread and interleaves with it.                                         *)
(***************************************************************************)
EXTENDS Integers, Sequences, FiniteSets, TLC

VARIABLES
    chain,                  \* Blockchain.chain of each node: a list of Block
    balances,               \* State.balances of each node: account -> balance
    updates,                \* State.updates of each node: account -> history
    current_transactions,   \* Blockchain.current_transactions of each node
    mine,                   \* each node's mining thread: position and locals
    acc,                    \* each node's block-receiving thread
    ret,                    \* what each node's last is_new_block_valid returned
    network,                \* blocks posted to a running node, not yet received
    election                \* a rotation of miners computed with next_miner

vars ==
    <<chain, balances, updates, current_transactions, mine, acc, ret, network,
      election>>

----------------------------------------------------------------------------
(* Bounds of the model *)

MaxChain == 2       \* blocks a chain may hold
MaxPool == 2        \* pending transactions a pool may hold
MaxBlockTxns == 1   \* transactions in a block posted by the environment

(* Program constants *)

SeedCredit == 10000                 \* balances['A'] = 10000
SeedAccount == "A"
GENESIS == <<"0xfeedcafe">>         \* previous_hash of block 1

(* Configuration *)

nodes == <<0, 1, 2>>                \* Blockchain.nodes, the same on every node
NodeIds == {nodes[i] : i \in 1..Len(nodes)}
Solo == {2}                         \* the node Spec runs

Accounts == {"A", "B"}
Amounts == {6000}
Txns == {t \in [sender : Accounts, recipient : Accounts, amount : Amounts] :
             t.sender # t.recipient}

----------------------------------------------------------------------------
(* Transaction *)

\* Python's order of the account strings.
StrLt(a, b) == a = "A" /\ b = "B"

\* Transaction.__lt__
TxnLt(t, o) ==
    IF StrLt(t.sender, o.sender) THEN TRUE
    ELSE IF StrLt(o.sender, t.sender) THEN FALSE
    ELSE IF StrLt(t.recipient, o.recipient) THEN TRUE
    ELSE IF StrLt(o.recipient, t.recipient) THEN FALSE
    ELSE t.amount < o.amount

\* Transaction.__eq__
TxnEq(t, o) ==
    t.sender = o.sender /\ t.recipient = o.recipient /\ t.amount = o.amount

\* Transaction.__str__: "T(sender -> recipient: amount)"
TxnStr(t) == <<"T", t.sender, t.recipient, t.amount>>

\* t in l, with Transaction.__eq__
TxnIn(t, l) == \E i \in 1..Len(l) : TxnEq(l[i], t)

\* list == list, elementwise with Transaction.__eq__
TxnListEq(a, b) ==
    Len(a) = Len(b) /\ \A i \in 1..Len(a) : TxnEq(a[i], b[i])

\* list.sort() with Transaction.__lt__: a stable insertion sort
RECURSIVE Insert(_, _)
Insert(t, l) ==
    IF l = <<>> THEN <<t>>
    ELSE IF TxnLt(t, Head(l)) THEN <<t>> \o l
    ELSE <<Head(l)>> \o Insert(t, Tail(l))

RECURSIVE SortFrom(_, _)
SortFrom(l, sorted) ==
    IF l = <<>> THEN sorted
    ELSE SortFrom(Tail(l), Insert(Head(l), sorted))

Sort(l) == SortFrom(l, <<>>)

----------------------------------------------------------------------------
(* Block *)

\* Block._hash: sha256 over str(number) + str([str(txn)...]) +
\* str(previous_hash) + str(miner).  The digest is modelled by the input it
\* is computed from, taking sha256 as free of collisions.
Hash(b) ==
    <<b.number,
      [i \in 1..Len(b.transactions) |-> TxnStr(b.transactions[i])],
      b.previous_hash,
      b.miner>>

\* Block.__init__
Block(number, transactions, previous_hash, miner) ==
    [number |-> number, transactions |-> transactions,
     previous_hash |-> previous_hash, miner |-> miner]

----------------------------------------------------------------------------
(* State *)

\* dict.get(k, d)
Get(d, k, default) == IF k \in DOMAIN d THEN d[k] ELSE default

\* d[k] = v
Put(d, k, v) == [x \in (DOMAIN d) \cup {k} |-> IF x = k THEN v ELSE d[x]]

\* valid that checks against temp_state and leaves it as it is
valid_stateless(transaction, temp_state) ==
    [ok |-> /\ transaction.sender \in DOMAIN temp_state
            /\ transaction.amount >= 0
            /\ temp_state[transaction.sender] >= transaction.amount,
     temp_state |-> temp_state]

\* State.valid: the verdict and temp_state after the call
valid(transaction, temp_state) ==
    IF transaction.sender \notin DOMAIN temp_state
        THEN [ok |-> FALSE, temp_state |-> temp_state]
    ELSE IF transaction.amount < 0
        THEN [ok |-> FALSE, temp_state |-> temp_state]
    ELSE IF temp_state[transaction.sender] < transaction.amount
        THEN [ok |-> FALSE, temp_state |-> temp_state]
    ELSE LET t1 == Put(temp_state, transaction.recipient,
                       Get(temp_state, transaction.recipient, 0)
                           + transaction.amount)
             t2 == Put(t1, transaction.sender,
                       t1[transaction.sender] - transaction.amount)
         IN  [ok |-> TRUE, temp_state |-> t2]

\* The list comprehension of validate_txns, from position i on.
RECURSIVE validate_loop(_, _, _, _)
validate_loop(txns, i, temp_state, result) ==
    IF i > Len(txns) THEN [result |-> result, temp_state |-> temp_state]
    ELSE LET v == valid(txns[i], temp_state)
         IN  validate_loop(txns, i + 1, v.temp_state,
                           IF v.ok THEN Append(result, txns[i]) ELSE result)

\* validate_txns that works on self.balances itself, not on a copy
validate_txns_nocopy(bal, txns) ==
    LET r == validate_loop(txns, 1, bal, <<>>)
    IN  [result |-> r.result, balances |-> r.temp_state]

\* State.validate_txns on self.balances = bal: the list returned and
\* self.balances after the call (the loop works on a deepcopy).
validate_txns(bal, txns) ==
    LET temp_state == bal
        r == validate_loop(txns, 1, temp_state, <<>>)
    IN  [result |-> r.result, balances |-> bal]

\* apply_transaction that leaves out the debit of the sender
apply_transaction_nodebit(bal, txn) ==
    [ok |-> TRUE,
     balances |-> Put(bal, txn.recipient,
                      Get(bal, txn.recipient, 0) + txn.amount)]

\* State.apply_transaction; ok is FALSE where Python raises KeyError
apply_transaction(bal, txn) ==
    LET b1 == Put(bal, txn.recipient, Get(bal, txn.recipient, 0) + txn.amount)
    IN  IF txn.sender \in DOMAIN b1
        THEN [ok |-> TRUE,
              balances |-> Put(b1, txn.sender, b1[txn.sender] - txn.amount)]
        ELSE [ok |-> FALSE, balances |-> b1]

\* An entry of State.updates: [blocknum, delta] as update_history writes it
\* (a list), or the tuple (1, 10000) the genesis credit writes.
Entry(blocknum, delta, tuple) ==
    [blocknum |-> blocknum, delta |-> delta, tuple |-> tuple]

\* One half of State.update_history: account gets delta in block blocknum.
\* ok is FALSE where Python raises TypeError (item assignment to a tuple).
update_entry(upd, account, blocknum, delta) ==
    IF account \notin DOMAIN upd
        THEN [ok |-> TRUE,
              updates |-> Put(upd, account, <<Entry(blocknum, delta, FALSE)>>)]
    ELSE LET h == upd[account]
             last == h[Len(h)]
         IN  IF last.blocknum = blocknum
             THEN IF last.tuple
                  THEN [ok |-> FALSE, updates |-> upd]
                  ELSE [ok |-> TRUE,
                        updates |-> Put(upd, account,
                            [h EXCEPT ![Len(h)] =
                                Entry(blocknum, last.delta + delta, FALSE)])]
             ELSE [ok |-> TRUE,
                   updates |-> Put(upd, account,
                       Append(h, Entry(blocknum, delta, FALSE)))]

\* State.update_history
update_history(upd, txn, blocknum) ==
    LET s == update_entry(upd, txn.sender, blocknum, 0 - txn.amount)
    IN  IF ~s.ok THEN s
        ELSE update_entry(s.updates, txn.recipient, blocknum, txn.amount)

\* The loop of State.apply_block, from position i on.  It stops at the
\* first statement that raises, with what was written until then.
RECURSIVE apply_loop(_, _, _, _)
apply_loop(block, i, bal, upd) ==
    IF i > Len(block.transactions)
        THEN [ok |-> TRUE, balances |-> bal, updates |-> upd]
    ELSE LET t == block.transactions[i]
             h == update_history(upd, t, block.number)
             a == apply_transaction(bal, t)
         IN  IF ~h.ok
                 THEN [ok |-> FALSE, balances |-> bal, updates |-> h.updates]
             ELSE IF ~a.ok
                 THEN [ok |-> FALSE, balances |-> a.balances,
                       updates |-> h.updates]
             ELSE apply_loop(block, i + 1, a.balances, h.updates)

\* State.apply_block
apply_block(bal, upd, block) == apply_loop(block, 1, bal, upd)

----------------------------------------------------------------------------
(* Blockchain *)

\* nodes_list.index(x), counted from 1
Index(nodes_list, x) ==
    CHOOSE i \in 1..Len(nodes_list) :
        nodes_list[i] = x /\ \A j \in 1..(i - 1) : nodes_list[j] # x

\* next_miner that does not advance
next_miner_same(block, nodes_list) == block.miner

\* next_miner that advances by two
next_miner_skip(block, nodes_list) ==
    LET next_miner_idx == (Index(nodes_list, block.miner) - 1 + 2) % Len(nodes_list)
    IN  nodes_list[next_miner_idx + 1]

\* next_miner(block, nodes_list)
next_miner(block, nodes_list) ==
    LET next_miner_idx == (Index(nodes_list, block.miner) - 1 + 1) % Len(nodes_list)
    IN  nodes_list[next_miner_idx + 1]

\* max(self.nodes) in the place of min(self.nodes)
MinNode_max(nodes_list) ==
    CHOOSE m \in {nodes_list[i] : i \in 1..Len(nodes_list)} :
        \A i \in 1..Len(nodes_list) : m >= nodes_list[i]

\* min(self.nodes)
MinNode(nodes_list) ==
    CHOOSE m \in {nodes_list[i] : i \in 1..Len(nodes_list)} :
        \A i \in 1..Len(nodes_list) : m <= nodes_list[i]

\* The genesis credit: balances['A'] = 10000; updates['A'] = [(1, 10000)]
credit_balances(bal) == Put(bal, SeedAccount, SeedCredit)
credit_updates(upd) == Put(upd, SeedAccount, <<Entry(1, SeedCredit, TRUE)>>)

\* Blockchain.is_new_block_valid on a node with chain ch, balances bal and
\* updates upd: what it returns ("True", "False", or "Raise" where
\* apply_block raises) and the ledger state it leaves.
is_new_block_valid(ch, bal, upd, block, received_blockhash) ==
    LET prev_hash == IF Len(ch) # 0 THEN Hash(ch[Len(ch)]) ELSE GENESIS
        v == validate_txns(bal, block.transactions)
        nxt_number == IF Len(ch) # 0 THEN ch[Len(ch)].number + 1 ELSE 1
        nxt_miner == IF Len(ch) # 0 THEN next_miner(ch[Len(ch)], nodes)
                     ELSE MinNode(nodes)
        b0 == IF block.number = 1 THEN credit_balances(v.balances)
              ELSE v.balances
        u0 == IF block.number = 1 THEN credit_updates(upd) ELSE upd
        a == apply_block(b0, u0, block)
    IN  IF Hash(block) # received_blockhash
            THEN [ret |-> "False", balances |-> bal, updates |-> upd]
        ELSE IF block.previous_hash # prev_hash
            THEN [ret |-> "False", balances |-> bal, updates |-> upd]
        ELSE IF ~TxnListEq(v.result, block.transactions)
            THEN [ret |-> "False", balances |-> v.balances, updates |-> upd]
        ELSE IF block.number # nxt_number
            THEN [ret |-> "False", balances |-> v.balances, updates |-> upd]
        ELSE IF block.miner # nxt_miner
            THEN [ret |-> "False", balances |-> v.balances, updates |-> upd]
        ELSE [ret |-> IF a.ok THEN "True" ELSE "Raise",
              balances |-> a.balances, updates |-> a.updates]

----------------------------------------------------------------------------
(* The threads of a node *)

NoBlock == Block(0, <<>>, GENESIS, 0)

\* No mining thread is running.
MineIdle ==
    [pc |-> "idle", genesis |-> FALSE, block_num |-> 0,
     included_transactions |-> <<>>, block |-> NoBlock, i |-> 0]

\* No block is being received.
AccIdle == [pc |-> "idle", block |-> NoBlock, received_blockhash |-> GENESIS]

\* Sequences over S of length at most k
SeqsUpTo(S, k) == UNION {[1..m -> S] : m \in 0..k}

\* The transaction lists of the blocks posted to a node.
TxnLists == SeqsUpTo(Txns, MaxBlockTxns)

\* The blocks a peer or any other sender may post to node n.
PostedBlocks(n) ==
    {Block(number, transactions, previous_hash, miner) :
        number \in 1..(MaxChain + 1),
        transactions \in TxnLists,
        previous_hash \in {GENESIS}
            \cup {Hash(chain[n][i]) : i \in 1..Len(chain[n])},
        miner \in NodeIds}

\* A hash that belongs to no block.
BadHash == <<"bad">>

\* No rotation is being computed.
NoElection == [nodes_list |-> nodes, block |-> NoBlock, visited |-> <<>>]

Init ==
    /\ chain = [n \in Solo |-> <<>>]
    /\ balances = [n \in Solo |-> <<>>]
    /\ updates = [n \in Solo |-> <<>>]
    /\ current_transactions = [n \in Solo |-> <<>>]
    /\ mine = [n \in Solo |-> MineIdle]
    /\ acc = [n \in Solo |-> AccIdle]
    /\ ret = [n \in Solo |-> "None"]
    /\ network = {}
    /\ election = NoElection

\* Blockchain.new_transaction
new_transaction(n, sender, recipient, amount) ==
    /\ Len(current_transactions[n]) < MaxPool
    /\ current_transactions' =
           [current_transactions EXCEPT ![n] =
               Append(@, [sender |-> sender, recipient |-> recipient,
                          amount |-> amount])]
    /\ UNCHANGED <<chain, balances, updates, mine, acc, ret, network,
                   election>>

\* The genesis argument of a mining attempt: the schedule asks for the
\* genesis block when the chain is empty.
GenesisArg(n) == {chain[n] = <<>>}

\* Blockchain.trigger_new_block_mine: the thread starts and sleeps.  One
\* attempt runs at a time.
trigger_new_block_mine(n, genesis) ==
    /\ mine[n].pc = "idle"
    /\ Len(chain[n]) < MaxChain
    /\ mine' = [mine EXCEPT ![n] = [MineIdle EXCEPT !.pc = "sleep",
                                                    !.genesis = genesis]]
    /\ UNCHANGED <<chain, balances, updates, current_transactions, acc, ret,
                   network, election>>

\* time.sleep is over; the genesis branch builds block 1 from constants.
mine_wake(n) ==
    /\ mine[n].pc = "sleep"
    /\ mine' = [mine EXCEPT ![n] =
           IF @.genesis
           THEN [@ EXCEPT !.pc = "append",
                          !.block = Block(1, <<>>, GENESIS, n)]
           ELSE [@ EXCEPT !.pc = "sort"]]
    /\ UNCHANGED <<chain, balances, updates, current_transactions, acc, ret,
                   network, election>>

\* self.current_transactions.sort()
mine_sort(n) ==
    /\ mine[n].pc = "sort"
    /\ current_transactions' =
           [current_transactions EXCEPT ![n] = Sort(@)]
    /\ mine' = [mine EXCEPT ![n].pc = "block_num"]
    /\ UNCHANGED <<chain, balances, updates, acc, ret, network, election>>

\* block_num = len(self.chain)+1
mine_block_num(n) ==
    /\ mine[n].pc = "block_num"
    /\ mine' = [mine EXCEPT ![n].pc = "validate",
                            ![n].block_num = Len(chain[n]) + 1]
    /\ UNCHANGED <<chain, balances, updates, current_transactions, acc, ret,
                   network, election>>

\* included_transactions = self.state.validate_txns(self.current_transactions)
mine_validate(n) ==
    /\ mine[n].pc = "validate"
    /\ LET v == validate_txns(balances[n], current_transactions[n])
       IN  /\ mine' = [mine EXCEPT ![n].pc = "prev_hash",
                                   ![n].included_transactions = v.result]
           /\ balances' = [balances EXCEPT ![n] = v.balances]
    /\ UNCHANGED <<chain, updates, current_transactions, acc, ret, network,
                   election>>

\* prev_block_hash = self.chain[-1]._hash(), which raises IndexError and
\* ends the thread on an empty chain; then the Block is built.
mine_prev_hash(n) ==
    /\ mine[n].pc = "prev_hash"
    /\ mine' = [mine EXCEPT ![n] =
           IF chain[n] = <<>> THEN MineIdle
           ELSE [@ EXCEPT !.pc = "append",
                          !.block = Block(mine[n].block_num,
                                          mine[n].included_transactions,
                                          Hash(chain[n][Len(chain[n])]), n)]]
    /\ UNCHANGED <<chain, balances, updates, current_transactions, acc, ret,
                   network, election>>

\* self.chain.append(block)
mine_append(n) ==
    /\ mine[n].pc = "append"
    /\ chain' = [chain EXCEPT ![n] = Append(@, mine[n].block)]
    /\ mine' = [mine EXCEPT ![n].pc = "filter"]
    /\ UNCHANGED <<balances, updates, current_transactions, acc, ret,
                   network, election>>

\* [t for t in l if t not in included]
RECURSIVE NotIn(_, _)
NotIn(l, included) ==
    IF l = <<>> THEN <<>>
    ELSE IF TxnIn(Head(l), included) THEN NotIn(Tail(l), included)
    ELSE <<Head(l)>> \o NotIn(Tail(l), included)

\* self.current_transactions = [t for t in ... if t not in included_transactions]
mine_filter(n) ==
    /\ mine[n].pc = "filter"
    /\ current_transactions' =
           [current_transactions EXCEPT ![n] =
               NotIn(@, mine[n].included_transactions)]
    /\ mine' = [mine EXCEPT ![n].pc = "apply"]
    /\ UNCHANGED <<chain, balances, updates, acc, ret, network, election>>

\* The loop over self.nodes, about to enter position i: positions holding
\* the node itself are skipped (continue), and past the last one the
\* thread ends.
RECURSIVE LoopAt(_, _, _)
LoopAt(n, m, i) ==
    IF i > Len(nodes) THEN MineIdle
    ELSE IF nodes[i] = n THEN LoopAt(n, m, i + 1)
    ELSE [m EXCEPT !.pc = "broadcast", !.i = i]

\* self.state.apply_block(block); an exception ends the thread
mine_apply(n) ==
    /\ mine[n].pc = "apply"
    /\ LET a == apply_block(balances[n], updates[n], mine[n].block)
       IN  /\ balances' = [balances EXCEPT ![n] = a.balances]
           /\ updates' = [updates EXCEPT ![n] = a.updates]
           /\ mine' = [mine EXCEPT ![n] =
                  IF ~a.ok THEN MineIdle
                  ELSE IF @.genesis THEN [@ EXCEPT !.pc = "credit"]
                  ELSE LoopAt(n, @, 1)]
    /\ UNCHANGED <<chain, current_transactions, acc, ret, network, election>>

\* if genesis: self.state.balances['A'] = 10000
mine_credit(n) ==
    /\ mine[n].pc = "credit"
    /\ balances' = [balances EXCEPT ![n] = credit_balances(@)]
    /\ mine' = [mine EXCEPT ![n].pc = "credit_history"]
    /\ UNCHANGED <<chain, updates, current_transactions, acc, ret, network,
                   election>>

\* self.state.updates['A'] = [(1, 10000)], the next statement
mine_credit_history(n) ==
    /\ mine[n].pc = "credit_history"
    /\ updates' = [updates EXCEPT ![n] = credit_updates(@)]
    /\ mine' = [mine EXCEPT ![n] = LoopAt(n, @, 1)]
    /\ UNCHANGED <<chain, balances, current_transactions, acc, ret, network,
                   election>>

\* block.encode() as posted to node p: the block's fields and its hash
Posted(p, block) ==
    [to |-> p, block |-> block, received_blockhash |-> Hash(block)]

\* requests.post(.../inform/block) to nodes[i]: the request is delivered,
\* or the call raises and ends the thread.  A block delivered to a node
\* that runs is in the network until that node receives it, and the call
\* returns after that; a node that does not run answers at once.
mine_broadcast(n, delivered) ==
    /\ mine[n].pc = "broadcast"
    /\ mine' = [mine EXCEPT ![n] =
           IF ~delivered THEN MineIdle
           ELSE IF nodes[mine[n].i] \in DOMAIN chain
               THEN [@ EXCEPT !.pc = "posted"]
           ELSE LoopAt(n, @, @.i + 1)]
    /\ network' =
           IF delivered /\ nodes[mine[n].i] \in DOMAIN chain
           THEN network \cup {Posted(nodes[mine[n].i], mine[n].block)}
           ELSE network
    /\ UNCHANGED <<chain, balances, updates, current_transactions, acc, ret,
                   election>>

\* requests.post returns: the peer has received the block.
mine_post_returns(n) ==
    /\ mine[n].pc = "posted"
    /\ Posted(nodes[mine[n].i], mine[n].block) \notin network
    /\ mine' = [mine EXCEPT ![n] = LoopAt(n, @, @.i + 1)]
    /\ UNCHANGED <<chain, balances, updates, current_transactions, acc, ret,
                   network, election>>

\* A block arrives and the receiving thread calls is_new_block_valid.
receive_block(n, block, received_blockhash) ==
    /\ acc[n].pc = "idle"
    /\ Len(chain[n]) < MaxChain
    /\ LET r == is_new_block_valid(chain[n], balances[n], updates[n],
                                   block, received_blockhash)
       IN  /\ balances' = [balances EXCEPT ![n] = r.balances]
           /\ updates' = [updates EXCEPT ![n] = r.updates]
           /\ ret' = [ret EXCEPT ![n] = r.ret]
           /\ acc' = [acc EXCEPT ![n] =
                  IF r.ret = "True"
                  THEN [pc |-> "append", block |-> block,
                        received_blockhash |-> received_blockhash]
                  ELSE AccIdle]
    /\ UNCHANGED <<chain, current_transactions, mine, election>>

\* The receiving thread appends the block is_new_block_valid accepted.
append_accepted(n) ==
    /\ acc[n].pc = "append"
    /\ chain' = [chain EXCEPT ![n] = Append(@, acc[n].block)]
    /\ acc' = [acc EXCEPT ![n] = AccIdle]
    /\ UNCHANGED <<balances, updates, current_transactions, mine, ret,
                   network, election>>

Next ==
    \E n \in Solo :
        \/ \E t \in Txns : new_transaction(n, t.sender, t.recipient, t.amount)
        \/ \E genesis \in GenesisArg(n) : trigger_new_block_mine(n, genesis)
        \/ mine_wake(n)
        \/ mine_sort(n)
        \/ mine_block_num(n)
        \/ mine_validate(n)
        \/ mine_prev_hash(n)
        \/ mine_append(n)
        \/ mine_filter(n)
        \/ mine_apply(n)
        \/ mine_credit(n)
        \/ mine_credit_history(n)
        \/ \E delivered \in BOOLEAN : mine_broadcast(n, delivered)
        \/ /\ acc[n].pc = "idle"
           /\ Len(chain[n]) < MaxChain
           /\ \E block \in PostedBlocks(n) :
                  \E h \in {Hash(block), BadHash} :
                      receive_block(n, block, h) /\ UNCHANGED network
        \/ append_accepted(n)

Spec == Init /\ [][Next]_vars

----------------------------------------------------------------------------
(* Two nodes that receive each other's broadcasts *)

Net == {0, 1}                       \* the nodes NetSpec runs

\* What the clients of these nodes submit: transfers out of the seed account.
NetTxns == {t \in Txns : t.sender = SeedAccount}

NetInit ==
    /\ chain = [n \in Net |-> <<>>]
    /\ balances = [n \in Net |-> <<>>]
    /\ updates = [n \in Net |-> <<>>]
    /\ current_transactions = [n \in Net |-> <<>>]
    /\ mine = [n \in Net |-> MineIdle]
    /\ acc = [n \in Net |-> AccIdle]
    /\ ret = [n \in Net |-> "None"]
    /\ network = {}
    /\ election = NoElection

\* Node n receives a block a peer posted to it.
receive_posted(n) ==
    \E m \in network :
        /\ m.to = n
        /\ receive_block(n, m.block, m.received_blockhash)
        /\ network' = network \ {m}

NetNext ==
    \E n \in Net :
        \/ \E t \in NetTxns : new_transaction(n, t.sender, t.recipient, t.amount)
        \/ \E genesis \in GenesisArg(n) : trigger_new_block_mine(n, genesis)
        \/ mine_wake(n)
        \/ mine_sort(n)
        \/ mine_block_num(n)
        \/ mine_validate(n)
        \/ mine_prev_hash(n)
        \/ mine_append(n)
        \/ mine_filter(n)
        \/ mine_apply(n)
        \/ mine_credit(n)
        \/ mine_credit_history(n)
        \/ \E delivered \in BOOLEAN : mine_broadcast(n, delivered)
        \/ mine_post_returns(n)
        \/ receive_posted(n)
        \/ append_accepted(n)

NetSpec == NetInit /\ [][NetNext]_vars

----------------------------------------------------------------------------
(* validate_txns called on a State of its own, as mytest.py does *)

MaxValLen == 2      \* transactions in a list given to validate_txns

ValAccounts == {"A", "B", "C"}
ValAmounts == {0 - 1, 4000, 6000}
ValTxns == [sender : ValAccounts, recipient : ValAccounts, amount : ValAmounts]

\* Transaction(sender, recipient, amount)
Transaction(sender, recipient, amount) ==
    [sender |-> sender, recipient |-> recipient, amount |-> amount]

\* The list of mytest.py
MytestTxns ==
    <<Transaction("A", "B", 2500), Transaction("A", "B", 3000),
      Transaction("A", "C", 550), Transaction("A", "C", 2800),
      Transaction("A", "B", 1000), Transaction("A", "C", 550)>>

\* The balances of mytest.py: s.balances['A'] = 10000
MytestBalances == [a \in {"A"} |-> SeedCredit]

\* The balances tables and the lists validate_txns is called with.
ValTables ==
    UNION {[S -> {4000, SeedCredit}] : S \in SUBSET {"A", "B"}}

ValLists == SeqsUpTo(ValTxns, MaxValLen) \cup {MytestTxns}

ValInit ==
    /\ balances \in [Solo -> ValTables]
    /\ current_transactions \in [Solo -> ValLists]
    /\ chain = [n \in Solo |-> <<>>]
    /\ updates = [n \in Solo |-> <<>>]
    /\ mine = [n \in Solo |-> MineIdle]
    /\ acc = [n \in Solo |-> AccIdle]
    /\ ret = [n \in Solo |-> "None"]
    /\ network = {}
    /\ election = NoElection

\* s.validate_txns(txns): ret holds the list returned.
call_validate_txns(n) ==
    /\ acc[n].pc = "idle"
    /\ LET v == validate_txns(balances[n], current_transactions[n])
       IN  /\ ret' = [ret EXCEPT ![n] = v.result]
           /\ balances' = [balances EXCEPT ![n] = v.balances]
    /\ acc' = [acc EXCEPT ![n].pc = "returned"]
    /\ UNCHANGED <<chain, updates, current_transactions, mine, network,
                   election>>

ValNext == \E n \in Solo : call_validate_txns(n)

ValSpec == ValInit /\ [][ValNext]_vars

----------------------------------------------------------------------------
(* next_miner applied again and again to a chain of blocks *)

MaxNodes == 3       \* identities in a node list

ElectIds == 0..MaxNodes

\* The lists of distinct identities.
NodeLists ==
    {l \in SeqsUpTo(ElectIds, MaxNodes) :
        /\ Len(l) >= 1
        /\ \A i, j \in 1..Len(l) : i # j => l[i] # l[j]}

\* A node list and a first block mined by one of its identities.
ElectInit ==
    /\ election \in
           UNION {{[nodes_list |-> l, block |-> Block(1, <<>>, GENESIS, l[i]),
                    visited |-> <<l[i]>>] : i \in 1..Len(l)} :
                  l \in NodeLists}
    /\ chain = [n \in Solo |-> <<>>]
    /\ balances = [n \in Solo |-> <<>>]
    /\ updates = [n \in Solo |-> <<>>]
    /\ current_transactions = [n \in Solo |-> <<>>]
    /\ mine = [n \in Solo |-> MineIdle]
    /\ acc = [n \in Solo |-> AccIdle]
    /\ ret = [n \in Solo |-> "None"]
    /\ network = {}

\* next_miner(block, nodes_list) names the miner of the next block, which
\* is built on block; the rotation is followed for len(nodes_list) blocks.
elect ==
    /\ Len(election.visited) <= Len(election.nodes_list)
    /\ LET m == next_miner(election.block, election.nodes_list)
       IN  election' =
               [election EXCEPT
                   !.block = Block(@.number + 1, <<>>, Hash(@), m),
                   !.visited = Append(@, m)]
    /\ UNCHANGED <<chain, balances, updates, current_transactions, mine, acc,
                   ret, network>>

ElectNext == elect

ElectSpec == ElectInit /\ [][ElectNext]_vars

----------------------------------------------------------------------------
(* Claims *)

\* chain[i].hash
HashOf(n, i) == Hash(chain[n][i])

\* C1: on every node every account's balance in the authoritative ledger
\* is at least 0 after each block commit.
C1_BalancesNonNegative ==
    \A n \in Solo : \A a \in DOMAIN balances[n] : balances[n][a] >= 0

\* C2: the chain of a node is correctly linked: the first block has number
\* 1 and previous_hash the genesis sentinel, and every later block has the
\* number of its predecessor plus 1 and previous_hash its predecessor's hash.
C2_ChainLinked ==
    \A n \in Solo :
        \A i \in 1..Len(chain[n]) :
            IF i = 1
            THEN /\ chain[n][1].number = 1
                 /\ chain[n][1].previous_hash = GENESIS
            ELSE /\ chain[n][i].number = chain[n][i - 1].number + 1
                 /\ chain[n][i].previous_hash = HashOf(n, i - 1)

\* C3: mining and acceptance on a node are serialized: a mining cycle and
\* an accept call never both extend the chain from the same prior last
\* block, so no two blocks of a chain have the same previous_hash.
C3_Serialized ==
    \A n \in Solo :
        \A i, j \in 1..Len(chain[n]) :
            i # j => chain[n][i].previous_hash # chain[n][j].previous_hash

\* The amounts the transactions of txns send to account a, and take from it.
RECURSIVE SumTo(_, _)
SumTo(txns, a) ==
    IF txns = <<>> THEN 0
    ELSE (IF Head(txns).recipient = a THEN Head(txns).amount ELSE 0)
             + SumTo(Tail(txns), a)

RECURSIVE SumFrom(_, _)
SumFrom(txns, a) ==
    IF txns = <<>> THEN 0
    ELSE (IF Head(txns).sender = a THEN Head(txns).amount ELSE 0)
             + SumFrom(Tail(txns), a)

\* is_new_block_valid returns True on node n in this step.
Accepts(n) == acc[n].pc = "idle" /\ acc'[n].pc = "append"

\* The receiving thread of node n finishes an accepted block in this step.
FinishesAccept(n) == acc[n].pc = "append" /\ acc'[n].pc = "idle"

Rejects(n) ==
    /\ ret'[n] = "False"
    /\ mine'[n] = mine[n]
    /\ acc'[n] = acc[n]
    /\ ~ \E t \in Txns :
           current_transactions'[n] = Append(current_transactions[n], t)

\* C5: whenever accept returns rejected, the node's chain, balances,
\* history and pool are unchanged.
C5_RejectedChangesNothing ==
    [][\A n \in Solo :
        Rejects(n) =>
            /\ chain'[n] = chain[n]
            /\ balances'[n] = balances[n]
            /\ updates'[n] = updates[n]
            /\ current_transactions'[n] = current_transactions[n]
      ]_vars

\* A block was rejected by a node whose chain holds an accepted genesis
\* block and whose ledger holds the seed credit.
C5_Witness ==
    \E n \in Solo :
        /\ chain[n] = <<Block(1, <<>>, GENESIS, 0)>>
        /\ balances[n] = [a \in {SeedAccount} |-> SeedCredit]
        /\ current_transactions[n] # <<>>
        /\ ret[n] = "False"

\* What the five checks expect of the next block of node n.
ExpectedPrev(n) ==
    IF chain[n] = <<>> THEN GENESIS ELSE HashOf(n, Len(chain[n]))

ExpectedNumber(n) ==
    IF chain[n] = <<>> THEN 1 ELSE chain[n][Len(chain[n])].number + 1

ExpectedMiner(n) ==
    IF chain[n] = <<>>
    THEN CHOOSE m \in NodeIds : \A k \in NodeIds : m <= k
    ELSE LET i == CHOOSE k \in 1..Len(nodes) :
                      nodes[k] = chain[n][Len(chain[n])].miner
         IN  IF i = Len(nodes) THEN nodes[1] ELSE nodes[i + 1]

FiveHold(n, block, claimed_hash) ==
    /\ Hash(block) = claimed_hash
    /\ block.previous_hash = ExpectedPrev(n)
    /\ validate_txns(balances[n], block.transactions).result
           = block.transactions
    /\ block.number = ExpectedNumber(n)
    /\ block.miner = ExpectedMiner(n)

\* What accept(block, claimed_hash) would return on node n now.
Returns(n, block, claimed_hash) ==
    is_new_block_valid(chain[n], balances[n], updates[n],
                       block, claimed_hash).ret

\* The block the five checks expect, with transactions txns.
ExpectedBlock(n, txns) ==
    Block(ExpectedNumber(n), txns, ExpectedPrev(n), ExpectedMiner(n))

\* C6: accept returns accepted if and only if all five checks hold against
\* the node's current state.  Every block accepted in a step passes the
\* five; and in every state where the node can take a call (its receiving
\* thread is idle) the block the five expect is accepted with
\* every transaction list that validates to itself, and rejected once its
\* claimed hash, previous_hash, number, miner or transaction list is off.
C6_AcceptedIffFiveHold ==
    /\ [][\A n \in Solo :
            Accepts(n) =>
                FiveHold(n, acc'[n].block, acc'[n].received_blockhash)
         ]_vars
    /\ [](\A n \in Solo :
            \A txns \in TxnLists :
                acc[n].pc = "idle" =>
                LET b == ExpectedBlock(n, txns)
                IN  IF FiveHold(n, b, Hash(b))
                    THEN /\ Returns(n, b, Hash(b)) = "True"
                         /\ Returns(n, b, BadHash) = "False"
                         /\ Returns(n, [b EXCEPT !.previous_hash = BadHash],
                                    Hash([b EXCEPT !.previous_hash = BadHash]))
                                = "False"
                         /\ Returns(n, [b EXCEPT !.number = @ + 1],
                                    Hash([b EXCEPT !.number = @ + 1]))
                                = "False"
                         /\ \A m \in NodeIds \ {b.miner} :
                                Returns(n, [b EXCEPT !.miner = m],
                                        Hash([b EXCEPT !.miner = m]))
                                    = "False"
                    ELSE Returns(n, b, Hash(b)) = "False")

\* The chain holds block 1 mined by node 0 of nodes [0, 1, 2]; block 2 with
\* miner 2 would be rejected and with miner 1 accepted, and the node's last
\* accept call was rejected.
C6_Witness ==
    \E n \in Solo :
        /\ nodes = <<0, 1, 2>>
        /\ chain[n] = <<Block(1, <<>>, GENESIS, 0)>>
        /\ Returns(n, Block(2, <<>>, HashOf(n, 1), 2),
                   Hash(Block(2, <<>>, HashOf(n, 1), 2))) = "False"
        /\ Returns(n, Block(2, <<>>, HashOf(n, 1), 1),
                   Hash(Block(2, <<>>, HashOf(n, 1), 1))) = "True"
        /\ ret[n] = "False"

\* The round-robin successor of miner m in nodes: the next index, wrapping.
Successor(m) ==
    LET i == CHOOSE k \in 1..Len(nodes) : nodes[k] = m
    IN  IF i = Len(nodes) THEN nodes[1] ELSE nodes[i + 1]

\* C7: in every chain block 1's miner is the minimum identity in nodes and
\* every later block's miner is the round-robin successor of the miner of
\* the block before it, for mined and for accepted blocks.
C7_MinersRoundRobin ==
    \A n \in Solo :
        \A i \in 1..Len(chain[n]) :
            IF i = 1
            THEN \A k \in NodeIds : chain[n][1].miner <= k
            ELSE chain[n][i].miner = Successor(chain[n][i - 1].miner)

\* The mining thread of node n commits its block to the ledger in this step.
MinerCommits(n) == mine[n].pc = "apply" /\ mine'[n].pc # "apply"

\* C8: for every block committed on a node, by mining or by acceptance,
\* validate_batch of the block's transactions against the balances as they
\* are immediately before the commit returns exactly that list.
C8_CommittedBlockValidates ==
    [][\A n \in Solo :
        /\ MinerCommits(n) =>
               validate_txns(balances[n], mine[n].block.transactions).result
                   = mine[n].block.transactions
        /\ Accepts(n) =>
               validate_txns(balances[n], acc'[n].block.transactions).result
                   = acc'[n].block.transactions
      ]_vars

\* C9: the pool never holds two entries with the same (sender, recipient,
\* amount): submitting a transaction equal to a pending one changes nothing.
C9_NoDuplicateInPool ==
    \A n \in Solo :
        \A i, j \in 1..Len(current_transactions[n]) :
            i # j => ~TxnEq(current_transactions[n][i],
                            current_transactions[n][j])

\* C10: once a block is committed on a node, mined or accepted (it is in
\* the chain and applied to the ledger), none of its transactions is in
\* the node's pool.
C10_CommittedLeavesPool ==
    [][\A n \in Solo :
        /\ MinerCommits(n) =>
               \A i \in 1..Len(mine[n].block.transactions) :
                   ~TxnIn(mine[n].block.transactions[i],
                          current_transactions'[n])
        /\ FinishesAccept(n) =>
               \A i \in 1..Len(acc[n].block.transactions) :
                   ~TxnIn(acc[n].block.transactions[i],
                          current_transactions'[n])
      ]_vars

\* The positions of nodes after position i that hold a peer of node n.
RemainingPeers(n, i) == {j \in (i + 1)..Len(nodes) : nodes[j] # n}

\* The mining thread of node n leaves the post to nodes[mine[n].i] in this
\* step, delivered or not.
LeavesPost(n) == mine[n].pc = "broadcast" /\ mine'[n] # mine[n]

\* C11: a failed delivery of the mined block to one peer does not abort
\* the cycle: after the post to a peer, delivered or not, the thread goes on
\* to post the same block to the next remaining peer of nodes (and ends
\* only when none remains), and chain, ledger and pool stay as committed.
C11_BroadcastGoesOn ==
    [][\A n \in Solo :
        LeavesPost(n) =>
            /\ IF RemainingPeers(n, mine[n].i) # {}
               THEN /\ mine'[n].pc = "broadcast"
                    /\ mine'[n].i \in RemainingPeers(n, mine[n].i)
                    /\ \A j \in RemainingPeers(n, mine[n].i) :
                           mine'[n].i <= j
                    /\ mine'[n].block = mine[n].block
               ELSE mine'[n].pc = "idle"
            /\ chain'[n] = chain[n]
            /\ balances'[n] = balances[n]
            /\ updates'[n] = updates[n]
            /\ current_transactions'[n] = current_transactions[n]
      ]_vars

\* The ledger after committing the blocks of ch from position i on, in
\* order, to balances bal and history upd: each block is applied, after the
\* seed credit where its number is 1.
RECURSIVE ReplayFrom(_, _, _, _)
ReplayFrom(ch, i, bal, upd) ==
    IF i > Len(ch) THEN [balances |-> bal, updates |-> upd]
    ELSE LET b0 == IF ch[i].number = 1 THEN credit_balances(bal) ELSE bal
             u0 == IF ch[i].number = 1 THEN credit_updates(upd) ELSE upd
             a == apply_block(b0, u0, ch[i])
         IN  ReplayFrom(ch, i + 1, a.balances, a.updates)

\* The replay of a chain from the empty state.
Replay(ch) == ReplayFrom(ch, 1, <<>>, <<>>)

\* Neither thread of node n is between the two halves of a commit (the
\* append to the chain and the application to the ledger).
NoCommitInProgress(n) ==
    /\ mine[n].pc \notin {"filter", "apply", "credit", "credit_history"}
    /\ acc[n].pc # "append"

\* C12: whenever no commit is in progress on a node, its balances and
\* history are what replaying the blocks of its chain in order from the
\* empty state gives (with the seed credit at block 1).
C12_LedgerIsReplayOfChain ==
    \A n \in Solo :
        NoCommitInProgress(n) =>
            /\ balances[n] = Replay(chain[n]).balances
            /\ updates[n] = Replay(chain[n]).updates

\* C13: the chains of any two nodes agree: at every height present in
\* both chains the two blocks are the same.
C13_ChainsAgree ==
    \A n, p \in Net :
        \A i \in 1..Len(chain[n]) :
            i <= Len(chain[p]) => chain[n][i] = chain[p][i]

\* The transactions of txns at the positions in K, in their order in txns.
RECURSIVE Pick(_, _)
Pick(txns, K) ==
    IF txns = <<>> THEN <<>>
    ELSE LET front == Pick(SubSeq(txns, 1, Len(txns) - 1), K)
         IN  IF Len(txns) \in K THEN Append(front, txns[Len(txns)])
             ELSE front

\* The positions among the first k of txns whose transaction is kept: at
\* its turn the sender is in the scratch (in bal, or the recipient of a
\* transaction kept before), the amount is at least 0 and the sender's
\* scratch balance (its balance in bal, plus what the transactions kept
\* before sent it, minus what they took from it) covers the amount.
RECURSIVE KeptUpTo(_, _, _)
KeptUpTo(bal, txns, k) ==
    IF k = 0 THEN {}
    ELSE LET before == KeptUpTo(bal, txns, k - 1)
             kept == Pick(txns, before)
             t == txns[k]
             present == \/ t.sender \in DOMAIN bal
                        \/ \E i \in before : txns[i].recipient = t.sender
             scratch == Get(bal, t.sender, 0) + SumTo(kept, t.sender)
                            - SumFrom(kept, t.sender)
         IN  IF present /\ t.amount >= 0 /\ scratch >= t.amount
             THEN before \cup {k}
             ELSE before

\* validate_txns returns on node n in this step.
ValidateReturns(n) == acc[n].pc = "idle" /\ acc'[n].pc = "returned"

\* C14: for every balances table and every transaction list, validate_batch
\* returns exactly the transactions kept at their turn, in their original
\* order, and leaves the balances table as it was.
C14_ValidateKeepsExactly ==
    [][\A n \in Solo :
        ValidateReturns(n) =>
            /\ ret'[n] = Pick(current_transactions[n],
                              KeptUpTo(balances[n], current_transactions[n],
                                       Len(current_transactions[n])))
            /\ balances'[n] = balances[n]
      ]_vars

\* With A = 10000 and the six transactions of mytest.py the call has
\* returned the first five and dropped the sixth.
C14_Witness ==
    \E n \in Solo :
        /\ acc[n].pc = "returned"
        /\ balances[n] = MytestBalances
        /\ current_transactions[n] = MytestTxns
        /\ ret[n] = SubSeq(MytestTxns, 1, 5)
        /\ Len(MytestTxns) = 6

\* The mining thread of node n builds its block in this step.
BuildsBlock(n) ==
    mine[n].pc \in {"sleep", "prev_hash"} /\ mine'[n].pc = "append"

\* The mining thread of node n performs the seed credit in this step.
Credits(n) == mine[n].pc = "credit" /\ mine'[n].pc # "credit"

\* The mining thread of node n ends on an exception before its commit is
\* complete.
AttemptFails(n) ==
    mine[n].pc \in {"prev_hash", "apply"} /\ mine'[n].pc = "idle"

\* C15: a mining attempt builds the genesis block (number 1, no
\* transactions, previous_hash the sentinel, miner the node) exactly when
\* the chain is empty as it builds, and otherwise block len(chain)+1 on the
\* last block of the chain; the seed credit is performed only for a genesis
\* block that is the first of the chain; and the attempt does not fail.
C15_GenesisIffChainEmpty ==
    [][\A n \in Solo :
        /\ BuildsBlock(n) =>
               IF chain[n] = <<>>
               THEN mine'[n].block = Block(1, <<>>, GENESIS, n)
               ELSE /\ mine'[n].block.number = Len(chain[n]) + 1
                    /\ mine'[n].block.previous_hash
                           = HashOf(n, Len(chain[n]))
                    /\ mine'[n].block.miner = n
        /\ Credits(n) =>
               /\ mine[n].block = Block(1, <<>>, GENESIS, n)
               /\ chain[n][1] = mine[n].block
        /\ ~AttemptFails(n)
      ]_vars

\* C16: for every list of N distinct identities and every starting miner
\* in it, the first N miners of the rotation are all different and are all
\* the identities of the list, the next one is the starting miner again, and
\* next_miner gives the same identity for every block of the same miner.
C16_NextMinerCycles ==
    LET l == election.nodes_list
        v == election.visited
        N == Len(l)
    IN  /\ \A i, j \in 1..Len(v) : (i < j /\ j <= N) => v[i] # v[j]
        /\ \A i \in 1..Len(v) : \E k \in 1..N : v[i] = l[k]
        /\ Len(v) >= N => \A k \in 1..N : \E i \in 1..N : v[i] = l[k]
        /\ Len(v) = N + 1 => v[N + 1] = v[1]
        /\ Len(v) >= 1 =>
               \A number \in 1..2, txns \in TxnLists,
                  previous_hash \in {GENESIS, BadHash} :
                   next_miner(Block(number, txns, previous_hash,
                                    election.block.miner), l)
                       = next_miner(election.block, l)

\* The rotation over the list [2, 0, 1] started at 0 has gone 0, 1, 2 and
\* is back at 0.
C16_Witness ==
    /\ election.nodes_list = <<2, 0, 1>>
    /\ election.visited = <<0, 1, 2, 0>>

\* How many entries of the list l equal transaction t.
Count(l, t) == Cardinality({i \in 1..Len(l) : TxnEq(l[i], t)})

\* The mining thread of node n removes the included transactions from the
\* pool in this step.
FiltersPool(n) == mine[n].pc = "filter" /\ mine'[n].pc = "apply"

\* C17: a mining cycle removes from the pool only what it included: of the
\* pending entries equal to a transaction, at most as many leave the pool
\* as the mined block holds, so every entry that was not included is still
\* pending, also when the pool holds several equal transactions.
C17_OnlyIncludedLeavePool ==
    [][\A n \in Solo :
        FiltersPool(n) =>
            \A t \in Txns :
                Count(current_transactions'[n], t) >=
                    Count(current_transactions[n], t)
                        - Count(mine[n].block.transactions, t)
      ]_vars

\* The pools a node may hold: what clients have submitted, in any order.
Pools == SeqsUpTo(Txns, MaxPool)

\* The block a mining attempt of node x builds from its chain and balances
\* as they are and the pool given, when nothing interleaves with it.
MinedBlock(x, pool) ==
    IF chain[x] = <<>> THEN Block(1, <<>>, GENESIS, x)
    ELSE Block(Len(chain[x]) + 1,
               validate_txns(balances[x], Sort(pool)).result,
               HashOf(x, Len(chain[x])), x)

\* The balances of node x after that attempt has committed its block.
MinedBalances(x, pool) ==
    LET a == apply_block(balances[x], updates[x], MinedBlock(x, pool))
    IN  IF chain[x] = <<>> THEN credit_balances(a.balances) ELSE a.balances

\* Peer p is in sync with node x, which is about to mine and is the miner
\* p expects.
InSync(x, p) ==
    /\ x # p
    /\ mine[x].pc = "idle"
    /\ acc[x].pc = "idle"
    /\ acc[p].pc = "idle"
    /\ chain[p] = chain[x]
    /\ balances[p] = balances[x]
    /\ ExpectedMiner(p) = x

\* C18: a block mined by node x is accepted by every peer in sync with it:
\* where a peer's chain and balances equal x's and x is the expected miner,
\* accept of the block x mines, from its own pool or any other, with the
\* block's hash returns accepted and leaves the peer's balances equal to
\* x's balances after mining.
C18_MinedBlockAcceptedInSync ==
    \A x, p \in Net :
        InSync(x, p) =>
            \A pool \in Pools \cup {current_transactions[x]} :
                LET B == MinedBlock(x, pool)
                    r == is_new_block_valid(chain[p], balances[p],
                                            updates[p], B, Hash(B))
                IN  /\ r.ret = "True"
                    /\ r.balances = MinedBalances(x, pool)

\* Node 0 has accepted the block 2 that node 1 mined on their common
\* block 1 from a pool holding a transfer, and the two ledgers agree.
C18_Witness ==
    /\ Len(chain[1]) = 2
    /\ chain[0] = chain[1]
    /\ chain[1][2].miner = 1
    /\ chain[1][2].transactions # <<>>
    /\ chain[1][1].miner = 0
    /\ ret[0] = "True"
    /\ ret[1] = "True"
    /\ acc[0].pc = "idle"
    /\ mine[1].pc = "idle"
    /\ balances[0] = balances[1]

\* The sum of the deltas of the history h.
RECURSIVE SumDeltas(_)
SumDeltas(h) == IF h = <<>> THEN 0 ELSE Head(h).delta + SumDeltas(Tail(h))

\* C19: whenever no commit is in progress on a node, every account's
\* balance is the sum of the deltas of its history (an account without
\* history has no balance, or balance 0), and the history has at most one
\* entry per block number, in increasing order of block number.
C19_BalanceIsSumOfHistory ==
    \A n \in Solo :
        NoCommitInProgress(n) =>
            \A a \in (DOMAIN balances[n]) \cup (DOMAIN updates[n]) :
                LET h == Get(updates[n], a, <<>>)
                IN  /\ Get(balances[n], a, 0) = SumDeltas(h)
                    /\ \A i, j \in 1..Len(h) :
                           i < j => h[i].blocknum < h[j].blocknum

\* The sum of the balances of the accounts in S.
RECURSIVE SumOver(_, _)
SumOver(bal, S) ==
    IF S = {} THEN 0
    ELSE LET a == CHOOSE x \in S : TRUE
         IN  bal[a] + SumOver(bal, S \ {a})

\* The total supply of a balances table.
Supply(bal) == SumOver(bal, DOMAIN bal)

\* C20: total supply is conserved: whenever no commit is in progress on a
\* node, the sum of its balances is 0 while its chain is empty and exactly
\* the seed credit once a block is committed.
C20_SupplyConserved ==
    \A n \in Solo :
        NoCommitInProgress(n) =>
            Supply(balances[n]) = IF chain[n] = <<>> THEN 0 ELSE SeedCredit

====
